---- MODULE Spec2Model ----
(***************************************************************************)
(* Model of the rag-gateway synchronization pipeline of audit-case-os:     *)
(* the sync trigger endpoint and its background task (app/api/v1/sync.py), *)
(* SyncService.sync_case (app/services/sync_service.py), the token window  *)
(* chunker (app/processing/chunker.py), the text extractor                 *)
(* (app/processing/extractors.py) and the embedding batch call             *)
(* (rag/embedder.py).                                                      *)
(*                                                                         *)
(* A text is the sequence of its tokens; a token is "w" (whitespace only)  *)
(* or "x" (anything else), which is all that str.strip() and the window    *)
(* arithmetic look at.  A string built by the code (an error line, a       *)
(* joined error message) is the sequence of its pieces.                    *)
(***************************************************************************)
EXTENDS Integers, Sequences, FiniteSets, TLC

VARIABLES
    upstream,     \* the remote case-management service: case_id -> evidence listing
    settings,     \* [CHUNK_SIZE, CHUNK_OVERLAP] read by SyncService.__init__
    jobs,         \* committed SyncJob rows, a sequence indexed by job id
    documents,    \* committed Document rows
    chunks,       \* committed Chunk rows
    runs,         \* one record per trigger request / background task
    next_doc_id,  \* the Document id sequence of the database
    faults,       \* number of failures injected so far (remote, embedding, memory)
    ck,           \* the state of one chunk_text call (chunker specifications)
    rq,           \* the state of one IrisClient call (client specification)
    ws,           \* EmbeddingService class state and the callers of warm_up
    fc            \* one call of a function of the pipeline on its own (call specification)

vars == <<upstream, settings, jobs, documents, chunks, runs, next_doc_id, faults, ck, rq, ws, fc>>

syncVars == <<upstream, settings, jobs, documents, chunks, runs, next_doc_id, faults>>

----------------------------------------------------------------------------
(* Bounds of the model *)

MaxT == 4          \* longest text, in tokens, given to chunk_text on its own
MaxC == 3          \* largest chunk_size given to chunk_text on its own
MaxChunks == 6     \* iterations explored of a chunk_text loop that does not end
MaxRuns == 2       \* trigger requests (and so background tasks) per behaviour
MaxFaults == 1     \* injected failures per behaviour

Null == "NULL"     \* Python None / SQL NULL, of a scalar
NoText == <<>>     \* Python None / SQL NULL, of a text column

Min(a, b) == IF a <= b THEN a ELSE b
Max(a, b) == IF a >= b THEN a ELSE b

RECURSIVE SeqsUpTo(_, _)
SeqsUpTo(S, n) ==
    IF n = 0 THEN {<<>>}
    ELSE LET shorter == SeqsUpTo(S, n - 1)
         IN shorter \cup {Append(q, x) : q \in {p \in shorter : Len(p) = n - 1}, x \in S}

\* str.strip() == "": no token carries a visible character
IsBlank(text) == \A i \in DOMAIN text : text[i] = "w"

----------------------------------------------------------------------------
(* chunker.py: DocumentChunker.chunk_text *)

\* tokens[start:end] with Python's slice rules (negative indices count from the end)
PySlice(tokens, start, end) ==
    LET n == Len(tokens)
        lo == IF start < 0 THEN Max(n + start, 0) ELSE Min(start, n)
        hi == IF end < 0 THEN Max(n + end, 0) ELSE Min(end, n)
    IN IF lo >= hi THEN <<>> ELSE SubSeq(tokens, lo + 1, hi)

\* The state of a call before its first statement
ChunkCall(tokens, chunk_size, chunk_overlap) ==
    [tokens |-> tokens, chunk_size |-> chunk_size, chunk_overlap |-> chunk_overlap,
     start_idx |-> 0, chunk_index |-> 0, chunks |-> <<>>, pc |-> "call"]

\* Lines 82-96: the empty-text return, tokenization, and the first loop test
ChunkEnter(s) ==
    IF Len(s.tokens) = 0 \/ IsBlank(s.tokens)
    THEN [s EXCEPT !.pc = "done"]
    ELSE [s EXCEPT !.pc = IF 0 < Len(s.tokens) THEN "loop" ELSE "done"]

\* The break test of lines 129-131, on the next start and this window's end
ChunkBreaks(next_start, end_idx) == next_start >= end_idx

\* Lines 96-131: one iteration of the while loop, break and loop test included
ChunkLoopBody(s) ==
    LET total_tokens == Len(s.tokens)
        end_idx      == Min(s.start_idx + s.chunk_size, total_tokens)
        chunk_tokens == PySlice(s.tokens, s.start_idx, end_idx)
        chunk        == [content     |-> chunk_tokens,
                         token_count |-> Len(chunk_tokens),
                         chunk_index |-> s.chunk_index,
                         start_token |-> s.start_idx,
                         end_token   |-> end_idx]
        next_start   == end_idx - s.chunk_overlap
    IN [s EXCEPT !.chunks = Append(@, chunk),
                 !.start_idx = next_start,
                 !.chunk_index = @ + 1,
                 !.pc = IF ChunkBreaks(next_start, end_idx) THEN "done"
                        ELSE IF next_start < total_tokens THEN "loop"
                        ELSE "done"]

\* The whole loop.  An iteration that stays in the loop without moving start_idx
\* forward repeats for ever (end_idx is monotone in start_idx and the break test
\* does not depend on it): that call never returns, pc = "diverge".
RECURSIVE ChunkRun(_)
ChunkRun(s) ==
    IF s.pc # "loop" THEN s
    ELSE LET n == ChunkLoopBody(s)
         IN IF n.pc = "loop" /\ n.start_idx <= s.start_idx
            THEN [n EXCEPT !.pc = "diverge"]
            ELSE ChunkRun(n)

\* chunk_text(text) under a chunker configuration: the final call state
ChunkText(tokens, chunk_size, chunk_overlap) ==
    ChunkRun(ChunkEnter(ChunkCall(tokens, chunk_size, chunk_overlap)))

----------------------------------------------------------------------------
(* Specification of one chunk_text call with 0 <= chunk_overlap < chunk_size *)

IdleCk == ChunkCall(<<>>, 1, 0)

ChunkInputs ==
    {ChunkCall(t, c, o) : t \in SeqsUpTo({"w", "x"}, MaxT),
                          c \in 1..MaxC, o \in 0..(MaxC - 1)}

ChunkStepEnter ==
    /\ ck.pc = "call"
    /\ ck' = ChunkEnter(ck)
    /\ UNCHANGED <<syncVars, rq, ws, fc>>

ChunkStepIterate ==
    /\ ck.pc = "loop"
    /\ Len(ck.chunks) < MaxChunks
    /\ ck' = ChunkLoopBody(ck)
    /\ UNCHANGED <<syncVars, rq, ws, fc>>

----------------------------------------------------------------------------
(* extractors.py: detect_mime_type and extract_text *)

\* An upstream file: its format decides the leading bytes and which parser accepts
\* it; body is the text it carries
File(key, format, body) == [key |-> key, format |-> format, body |-> body]

Filename(stem, ext) == [stem |-> stem, ext |-> ext]

\* The filename as text
FilenameText(filename) ==
    IF filename.ext = "" THEN <<filename.stem>> ELSE <<filename.stem, ".", filename.ext>>

\* mimetypes.guess_type(filename)[0]: the standard table, on the extension
GuessType(filename) ==
    CASE filename.ext = "txt"  -> "text/plain"
      [] filename.ext = "csv"  -> "text/csv"
      [] filename.ext = "html" -> "text/html"
      [] filename.ext = "pdf"  -> "application/pdf"
      [] filename.ext = "docx" -> "application/vnd.openxmlformats-officedocument.wordprocessingml.document"
      [] filename.ext = "bin"  -> "application/octet-stream"
      [] OTHER                 -> Null

\* Lines 50-61: the magic-byte fallback
MagicType(content) ==
    CASE content.format = "pdf"  -> "application/pdf"
      [] content.format = "docx" -> "application/vnd.openxmlformats-officedocument.wordprocessingml.document"
      [] content.format = "zip"  -> "application/zip"
      [] content.format = "html" -> "text/html"
      [] OTHER                   -> "text/plain"

\* detect_mime_type that looks at the content before the filename
DetectMagicFirst(filename, content) ==
    IF content.format # "text" THEN MagicType(content)
    ELSE IF GuessType(filename) # Null THEN GuessType(filename) ELSE "text/plain"

\* Lines 33-61
detect_mime_type(filename, content) ==
    IF GuessType(filename) # Null THEN GuessType(filename) ELSE MagicType(content)

Extracted(text) == [ok |-> TRUE, text |-> text, error |-> <<>>]
ExtractionError(msg) == [ok |-> FALSE, text |-> <<>>, error |-> msg]

\* Lines 142-164: latin-1 decodes every byte string, so decoding never fails; the
\* framing bytes of a non-text format decode to visible characters
extract_from_txt(content) ==
    Extracted(IF content.format = "text" THEN content.body ELSE <<"x">> \o content.body)

\* Lines 64-99
extract_from_pdf(content) ==
    IF content.format # "pdf" THEN ExtractionError(<<"Invalid PDF file">>)
    ELSE IF content.body = <<>>
         THEN ExtractionError(<<"PDF extraction failed: ", "No text extracted from PDF">>)
         ELSE Extracted(content.body)

\* Lines 102-139: paragraphs that are blank are dropped
extract_from_docx(content) ==
    IF content.format # "docx" \/ IsBlank(content.body)
    THEN ExtractionError(<<"DOCX extraction failed">>)
    ELSE Extracted(content.body)

\* Leading and trailing whitespace removed (str.strip on the visible text)
RECURSIVE Strip(_)
Strip(text) ==
    IF text = <<>> THEN text
    ELSE IF Head(text) = "w" THEN Strip(Tail(text))
    ELSE IF text[Len(text)] = "w" THEN Strip(SubSeq(text, 1, Len(text) - 1))
    ELSE text

\* Lines 167-205
extract_from_html(content) ==
    LET visible == Strip(IF content.format = "html" THEN content.body
                         ELSE extract_from_txt(content).text)
    IN IF visible = <<>>
       THEN ExtractionError(<<"HTML extraction failed: ", "No text extracted from HTML">>)
       ELSE Extracted(visible)

\* Line 233: mime_type.startswith("text/"), over the types of the model
StartsWithText(mime_type) == mime_type \in {"text/plain", "text/csv", "text/html"}

\* Lines 208-242
extract_text(filename, content) ==
    LET mime_type == detect_mime_type(filename, content)
    IN IF mime_type = "application/pdf" THEN extract_from_pdf(content)
       ELSE IF mime_type = "application/vnd.openxmlformats-officedocument.wordprocessingml.document"
       THEN extract_from_docx(content)
       ELSE IF mime_type = "text/html" THEN extract_from_html(content)
       ELSE IF StartsWithText(mime_type) THEN extract_from_txt(content)
       ELSE ExtractionError(<<"Unsupported file type: ", mime_type>>)

\* The filenames and contents extract_text is given on its own: every
\* extension of GuessType and none, every format, bodies of up to two tokens
ExtractInputs ==
    {[op |-> "extract_text", filename |-> Filename("f", ext), content |-> File("k", format, body),
      pc |-> "call", mime_type |-> Null, result |-> ExtractionError(<<>>)] :
        ext \in {"", "txt", "csv", "html", "pdf", "docx", "bin"},
        format \in {"pdf", "docx", "zip", "html", "text"},
        body \in SeqsUpTo({"w", "x"}, 2)}

----------------------------------------------------------------------------
(* The remote service and what it holds *)

Evidence(id, filename, content) == [id |-> id, filename |-> filename, content |-> content]

TxtA == File("A", "text", <<"x", "x", "x">>)
TxtB == File("B", "text", <<"x">>)
TxtW == File("W", "text", <<"w", "w">>)
TxtL == File("L", "text", <<"w", "w", "x">>)
ZipZ == File("Z", "zip", <<"x">>)

\* Two extractable text files around one unsupported binary
ListingMixed ==
    << Evidence(1, Filename("a", "txt"), TxtA),
       Evidence(2, Filename("c", "bin"), ZipZ),
       Evidence(3, Filename("b", "txt"), TxtB) >>

\* The same bytes under two names
ListingSameBytes ==
    << Evidence(4, Filename("a", "txt"), TxtA),
       Evidence(5, Filename("a_copy", ""), TxtA) >>

\* A whitespace-only file and one that starts with a run of whitespace
ListingBlank ==
    << Evidence(6, Filename("w", "txt"), TxtW),
       Evidence(7, Filename("l", "txt"), TxtL) >>

\* Case 2 holds the bytes of case 1's first file under another name
ListingOther == << Evidence(8, Filename("other", "txt"), TxtA) >>

Listings == {ListingMixed, ListingSameBytes, ListingBlank, <<>>}

\* Case 1 and case 2 exist upstream; case 3 does not
Upstreams == {(1 :> l) @@ (2 :> ListingOther) : l \in Listings}

CaseIds == {1, 2, 3}

\* settings.CHUNK_SIZE and settings.CHUNK_OVERLAP (config.py lines 69-70, read from
\* the environment), scaled to the texts above: without and with overlap
ChunkerSettings ==
    { [CHUNK_SIZE |-> 2, CHUNK_OVERLAP |-> 0], [CHUNK_SIZE |-> 2, CHUNK_OVERLAP |-> 1] }

\* hashlib.sha256(file_content).hexdigest(): one digest per byte string
Sha256(content) == <<"sha256", content.key>>

\* Ways a call through IrisClient._request ends in an exception
RequestFaults == {"auth", "api", "transient"}

\* str(e) of the exception a failed request raises
RequestErrorText(fault) ==
    CASE fault = "auth" -> <<"Invalid or expired API key">>
      [] fault = "api" -> <<"IRIS API error ", "500">>
      [] OTHER -> <<"RetryError">>

\* One entry of the case listing /manage/cases/list answers with
CaseRecord(case_id, case_name) == [case_id |-> case_id, case_name |-> case_name]

\* None, where a case record is expected
NoCase == CaseRecord(-1, "None")

\* The answer of /manage/cases/list
CasesResponse(status, data) == [status |-> status, data |-> data]

\* FirstCase that takes the first entry of the listing, whatever its identifier
FirstCaseUnfiltered(cases, case_id) ==
    IF cases = <<>> THEN NoCase ELSE Head(cases)

\* Line 184: next((c for c in cases if c.get("case_id") == case_id), None)
RECURSIVE FirstCase(_, _)
FirstCase(cases, case_id) ==
    IF cases = <<>> THEN NoCase
    ELSE IF Head(cases).case_id = case_id THEN Head(cases)
    ELSE FirstCase(Tail(cases), case_id)

\* Lines 177-190: what get_case does with the answer of the listing request
GetCaseIn(response, case_id) ==
    IF response.status # "success"
    THEN [ok |-> FALSE, exc |-> "IrisAPIError", case |-> NoCase]
    ELSE LET case == FirstCase(response.data, case_id)
         IN IF case = NoCase
            THEN [ok |-> FALSE, exc |-> "IrisNotFoundError", case |-> NoCase]
            ELSE [ok |-> TRUE, exc |-> Null, case |-> case]

\* The case listing of the upstreams of the pipeline: cases 1 and 2
UpstreamCases == <<CaseRecord(1, "a"), CaseRecord(2, "b")>>

\* iris_client.py lines 155-190: get_case over the flat case listing
get_case(case_id, outcome) ==
    IF outcome # "ok" THEN [ok |-> FALSE, kind |-> outcome, text |-> RequestErrorText(outcome)]
    ELSE IF ~GetCaseIn(CasesResponse("success", UpstreamCases), case_id).ok
         THEN [ok |-> FALSE, kind |-> "notfound", text |-> <<"Case ", ToString(case_id), " not found">>]
         ELSE [ok |-> TRUE, kind |-> "ok", text |-> <<>>]

MaxCases == 3      \* entries of a case listing given to get_case on its own

GetCaseInputs ==
    {[op |-> "get_case", response |-> CasesResponse(status, data), case_id |-> id,
      pc |-> "call", exc |-> Null, case |-> NoCase] :
        status \in {"success", "error"},
        data \in SeqsUpTo({CaseRecord(i, n) : i \in {1, 2}, n \in {"a", "b"}}, MaxCases),
        id \in {1, 2, 3}}

\* iris_client.py lines 192-228
list_case_evidence(case_id, outcome) ==
    IF outcome # "ok"
    THEN [ok |-> FALSE, kind |-> outcome, evidences |-> <<>>, text |-> RequestErrorText(outcome)]
    ELSE [ok |-> TRUE, kind |-> "ok", evidences |-> upstream[case_id], text |-> <<>>]

\* Ways download_evidence ends in an exception (all raised as IrisAPIError or its
\* subclass IrisNotFoundError)
DownloadFaults == {"notfound", "unauthorized", "network"}

\* iris_client.py lines 230-284 (content is read only when ok)
download_evidence(evidence, outcome) ==
    CASE outcome = "ok" -> [ok |-> TRUE, content |-> evidence.content, text |-> <<>>]
      [] outcome = "notfound" ->
            [ok |-> FALSE, content |-> evidence.content,
             text |-> <<"Evidence ", ToString(evidence.id), " not found">>]
      [] outcome = "unauthorized" ->
            [ok |-> FALSE, content |-> evidence.content,
             text |-> <<"Failed to download evidence: HTTP ", "401">>]
      [] OTHER ->
            [ok |-> FALSE, content |-> evidence.content, text |-> <<"Network error">>]

----------------------------------------------------------------------------
(* iris_client.py: one call through IrisClient._request (under its tenacity
   decorator) or through IrisClient.download_evidence *)

MaxScript == 4     \* upstream answers prepared for one client call

StopAfterAttempt == 3   \* stop_after_attempt(3)
WaitMultiplier == 1     \* wait_exponential(multiplier=1, ...)
WaitMin == 2            \* wait_exponential(..., min=2, ...)
WaitMax == 10           \* wait_exponential(..., max=10)

\* What the upstream does with one HTTP attempt: a response with its status (304
\* and 200_badjson carry a body that is not JSON; 200 carries a JSON object whose
\* status is success, 200_fail one whose status is not, 200_list a JSON list), or
\* a transport failure (httpx.NetworkError, httpx.TimeoutException)
Responses == {"200", "200_fail", "200_list", "200_badjson", "304", "401", "404", "500",
              "network", "timeout"}

Returned == [ok |-> TRUE, exc |-> Null]
Raised(exc) == [ok |-> FALSE, exc |-> exc]

\* Lines 254-284: the body of download_evidence, one attempt and no decorator.
\* Only 404 has a class of its own; every other failure, the transport failures
\* included, is raised as IrisAPIError.  The content is returned as bytes.
DownloadAttempt(response) ==
    CASE response = "404" -> Raised("IrisNotFoundError")
      [] response \in {"401", "500"} -> Raised("IrisAPIError")
      [] response = "304" -> Raised("IrisAPIError")
      [] response \in {"network", "timeout"} -> Raised("IrisAPIError")
      [] OTHER -> Returned

\* RequestAttempt that has no class for a rejected credential
RequestAttemptAuthAsGeneric(response) ==
    CASE response = "404" -> Raised("IrisNotFoundError")
      [] response \in {"401", "500", "304", "200_badjson"} -> Raised("IrisAPIError")
      [] response = "network" -> Raised("NetworkError")
      [] response = "timeout" -> Raised("TimeoutException")
      [] OTHER -> Returned

\* Lines 121-153: the body of _request, one attempt
RequestAttempt(response) ==
    CASE response = "401" -> Raised("IrisAuthenticationError")
      [] response = "404" -> Raised("IrisNotFoundError")
      [] response = "500" -> Raised("IrisAPIError")
      [] response = "304" -> Raised("IrisAPIError")
      [] response = "200_badjson" -> Raised("IrisAPIError")
      [] response = "network" -> Raised("NetworkError")
      [] response = "timeout" -> Raised("TimeoutException")
      [] OTHER -> Returned

\* ShouldRetry that retries nothing
NeverRetry(exc) == FALSE

\* Line 97: retry_if_exception_type((httpx.NetworkError, httpx.TimeoutException))
ShouldRetry(exc) == exc \in {"NetworkError", "TimeoutException"}

\* Line 96: the seconds slept after the attempt of this number
RECURSIVE Pow2(_)
Pow2(n) == IF n = 0 THEN 1 ELSE 2 * Pow2(n - 1)

WaitExponential(attempt_number) ==
    Max(Max(0, WaitMin), Min(WaitMultiplier * Pow2(attempt_number - 1), WaitMax))

\* The state of a client call before its first attempt
ClientCall(op, script) ==
    [op |-> op, script |-> script, attempts |-> 0, slept |-> 0,
     pc |-> "attempt", exc |-> Null, result |-> "none"]

\* Lines 94-98: what the decorator does with the outcome of an attempt: the result
\* is returned, an exception that is not retried is raised as it is, a retried one
\* is followed by a wait, and after the last attempt RetryError is raised in its
\* place (the decorator is not given reraise=True)
Retrying(call, outcome) ==
    LET n == call.attempts + 1
    IN IF outcome.ok THEN [call EXCEPT !.attempts = n, !.pc = "returned"]
       ELSE IF ~ShouldRetry(outcome.exc)
       THEN [call EXCEPT !.attempts = n, !.pc = "raised", !.exc = outcome.exc]
       ELSE IF n >= StopAfterAttempt
       THEN [call EXCEPT !.attempts = n, !.pc = "raised", !.exc = "RetryError"]
       ELSE [call EXCEPT !.attempts = n, !.pc = "wait"]

\* download_evidence is not decorated: the outcome of its one attempt is final
Undecorated(call, outcome) ==
    IF outcome.ok THEN [call EXCEPT !.attempts = @ + 1, !.pc = "returned"]
    ELSE [call EXCEPT !.attempts = @ + 1, !.pc = "raised", !.exc = outcome.exc]

IdleRq == ClientCall("request", <<>>)

ClientInputs ==
    {ClientCall(op, script) :
        op \in {"request", "download", "health"},
        script \in {q \in SeqsUpTo(Responses, MaxScript) : Len(q) = MaxScript}}

\* One attempt of _request and the decorator's decision
RequestStep ==
    /\ rq.op \in {"request", "health"}
    /\ rq.pc = "attempt"
    /\ rq.attempts < Len(rq.script)
    /\ rq' = Retrying(rq, RequestAttempt(rq.script[rq.attempts + 1]))
    /\ UNCHANGED <<syncVars, ck, ws, fc>>

\* The sleep between two attempts
RequestWait ==
    /\ rq.pc = "wait"
    /\ rq' = [rq EXCEPT !.pc = "attempt", !.slept = @ + WaitExponential(rq.attempts)]
    /\ UNCHANGED <<syncVars, ck, ws, fc>>

\* download_evidence
DownloadStep ==
    /\ rq.op = "download"
    /\ rq.pc = "attempt"
    /\ rq.attempts < Len(rq.script)
    /\ rq' = Undecorated(rq, DownloadAttempt(rq.script[rq.attempts + 1]))
    /\ UNCHANGED <<syncVars, ck, ws, fc>>

\* health_check that catches the client's own error classes only
CaughtIfIrisError(exc) ==
    exc \in {"IrisAPIError", "IrisNotFoundError", "IrisAuthenticationError"}

\* Line 296: except Exception
CaughtByHealthCheck(exc) == TRUE

\* Lines 293-298: what health_check does once its _request call has ended.
\* response.get on a JSON body that is not an object raises AttributeError
\* inside the try block.
HealthCheck(call) ==
    LET data == call.script[call.attempts]
        exc == IF call.pc = "raised" THEN call.exc
               ELSE IF data = "200_list" THEN "AttributeError"
               ELSE Null
    IN IF exc = Null
       THEN [call EXCEPT !.pc = "health_returned",
                         !.result = IF data = "200" THEN "True" ELSE "False"]
       ELSE IF CaughtByHealthCheck(exc)
       THEN [call EXCEPT !.pc = "health_returned", !.exc = exc, !.result = "False"]
       ELSE [call EXCEPT !.pc = "health_raised", !.exc = exc]

\* health_check, from the end of its request on
HealthReturn ==
    /\ rq.op = "health"
    /\ rq.pc \in {"returned", "raised"}
    /\ rq' = HealthCheck(rq)
    /\ UNCHANGED <<syncVars, ck, ws, fc>>

----------------------------------------------------------------------------
(* rag/embedder.py: EmbeddingService.embed_batch *)

\* model.encode of one text: the vector computed from that text
Encode(text) == [of |-> text]

EMBEDDING_BATCH_SIZE == 32   \* settings.EMBEDDING_BATCH_SIZE

\* Lines 113-134: the texts are encoded batch_size at a time and the vectors of
\* each batch are appended to all_embeddings
RECURSIVE EncodeInBatches(_, _)
EncodeInBatches(valid_texts, batch_size) ==
    IF valid_texts = <<>> THEN <<>>
    ELSE LET n     == Min(batch_size, Len(valid_texts))
             batch == SubSeq(valid_texts, 1, n)
         IN [i \in 1..n |-> Encode(batch[i])]
            \o EncodeInBatches(SubSeq(valid_texts, n + 1, Len(valid_texts)), batch_size)

\* Lines 102-134 for a service whose batch_size is given: blank texts are
\* filtered out, the rest are encoded in order
EmbedBatch(texts, batch_size) ==
    LET valid_texts == SelectSeq(texts, LAMBDA t : ~IsBlank(t))
    IN IF texts = <<>> \/ valid_texts = <<>> THEN <<>>
       ELSE EncodeInBatches(valid_texts, batch_size)

\* Lines 102-134 under the configured batch size
embed_batch(texts) == EmbedBatch(texts, EMBEDDING_BATCH_SIZE)

MaxTexts == 3      \* texts given to one embed_batch call on its own
MaxBatch == 3      \* largest batch_size of an embed_batch call on its own

\* No call
IdleFc == [op |-> "none", pc |-> "done"]

\* The texts a chunk can carry: empty, blank, and two that differ
SampleTexts == {<<>>, <<"w">>, <<"x">>, <<"x", "x">>}

EmbedInputs ==
    {[op |-> "embed_batch", texts |-> t, batch_size |-> b, pc |-> "call", ret |-> <<>>] :
        t \in SeqsUpTo(SampleTexts, MaxTexts), b \in 1..MaxBatch}

\* One get_case call, from the answer of its listing request on
GetCaseCall ==
    /\ fc.op = "get_case"
    /\ fc.pc = "call"
    /\ LET got == GetCaseIn(fc.response, fc.case_id)
       IN fc' = [fc EXCEPT !.pc = IF got.ok THEN "returned" ELSE "raised",
                           !.exc = got.exc, !.case = got.case]
    /\ UNCHANGED <<syncVars, ck, rq, ws>>

\* One extract_text call: the type it resolved and what it returned or raised
ExtractTextCall ==
    /\ fc.op = "extract_text"
    /\ fc.pc = "call"
    /\ LET result == extract_text(fc.filename, fc.content)
       IN fc' = [fc EXCEPT !.pc = IF result.ok THEN "returned" ELSE "raised",
                           !.mime_type = detect_mime_type(fc.filename, fc.content),
                           !.result = result]
    /\ UNCHANGED <<syncVars, ck, rq, ws>>

\* One embed_batch call
EmbedBatchCall ==
    /\ fc.op = "embed_batch"
    /\ fc.pc = "call"
    /\ fc' = [fc EXCEPT !.pc = "returned", !.ret = EmbedBatch(fc.texts, fc.batch_size)]
    /\ UNCHANGED <<syncVars, ck, rq, ws>>

----------------------------------------------------------------------------
(* rag/embedder.py: the class state of EmbeddingService and warm_up, with its
   callers: the application lifespan (main.py) and get_embedding_service (sync.py) *)

MaxCallers == 3    \* tasks that ask for the embedding model in one process

Callers == 1..MaxCallers

\* "lifespan" awaits warm_up unconditionally (main.py lines 48-50); "dependency"
\* is get_embedding_service, which awaits it when is_loaded() is false
CallerKinds == {"lifespan", "dependency"}

IdleCaller(kind) == [kind |-> kind, pc |-> "idle", saw |-> 0]

\* Lines 15-17: _model (0 is None, otherwise the instance), _model_lock (0 is
\* free, otherwise the holder), _loaded; loads counts the SentenceTransformer
\* constructions that returned an instance
ClassState(kinds) ==
    [model |-> 0, lock |-> 0, loaded |-> FALSE, loads |-> 0,
     callers |-> [c \in Callers |-> IdleCaller(kinds[c])]]

IdleWs == ClassState([c \in Callers |-> "lifespan"])

\* LockAvailable of a lock that excludes nobody
LockAlwaysAvailable(lock) == TRUE

\* asyncio.Lock: acquire returns only while nobody holds the lock
LockAvailable(lock) == lock = 0

\* sync.py lines 84-88 and main.py lines 49-50: the caller decides whether to
\* await warm_up; a caller that does not is handed the service over the cached model
WarmStart(c) ==
    /\ ws.callers[c].pc = "idle"
    /\ ws' = IF ws.callers[c].kind = "dependency" /\ ws.loaded
             THEN [ws EXCEPT !.callers[c].pc = "done", !.callers[c].saw = ws.model]
             ELSE [ws EXCEPT !.callers[c].pc = "acquire"]
    /\ UNCHANGED <<syncVars, ck, rq, fc>>

\* embedder.py lines 28-29: the lock is taken and _model is tested; when it is
\* set, the block ends and the lock is released
WarmAcquire(c) ==
    /\ ws.callers[c].pc = "acquire"
    /\ LockAvailable(ws.lock)
    /\ ws' = IF ws.model = 0
             THEN [ws EXCEPT !.lock = c, !.callers[c].pc = "construct"]
             ELSE [ws EXCEPT !.callers[c].pc = "done", !.callers[c].saw = ws.model]
    /\ UNCHANGED <<syncVars, ck, rq, fc>>

\* Lines 33-41: SentenceTransformer(...) in the executor returns the instance, or
\* raises (lines 55-57: the exception leaves the block, which releases the lock)
WarmConstruct(c) ==
    /\ ws.callers[c].pc = "construct"
    /\ \E outcome \in {"ok", "raise"} :
          ws' = IF outcome = "ok"
                THEN [ws EXCEPT !.model = ws.loads + 1, !.loads = @ + 1,
                                !.callers[c].pc = "encode"]
                ELSE [ws EXCEPT !.lock = IF @ = c THEN 0 ELSE @,
                                !.callers[c].pc = "failed"]
    /\ UNCHANGED <<syncVars, ck, rq, fc>>

\* Lines 43-57: the throwaway encode, then _loaded = True and the lock is released;
\* when encode raises the lock is released with _model set and _loaded false
WarmEncode(c) ==
    /\ ws.callers[c].pc = "encode"
    /\ \E outcome \in {"ok", "raise"} :
          ws' = IF outcome = "ok"
                THEN [ws EXCEPT !.loaded = TRUE, !.lock = IF @ = c THEN 0 ELSE @,
                                !.callers[c].pc = "done", !.callers[c].saw = ws.model]
                ELSE [ws EXCEPT !.lock = IF @ = c THEN 0 ELSE @,
                                !.callers[c].pc = "failed"]
    /\ UNCHANGED <<syncVars, ck, rq, fc>>

----------------------------------------------------------------------------
(* Rows of the database *)

\* sync.py lines 172-176: the row the trigger endpoint inserts
PendingJob(case_id, force_reindex) ==
    [case_id |-> case_id, status |-> "pending", started_at |-> Null,
     completed_at |-> Null, documents_synced |-> 0, chunks_created |-> 0,
     error_message |-> NoText, force_reindex |-> force_reindex]

\* RunningJob that is inserted without status running and without started_at
RunningJobNotStarted(case_id, force_reindex) ==
    [case_id |-> case_id, status |-> "pending", started_at |-> Null,
     completed_at |-> Null, documents_synced |-> 0, chunks_created |-> 0,
     error_message |-> NoText, force_reindex |-> force_reindex]

\* sync_service.py lines 85-90: the row sync_case inserts
RunningJob(case_id, force_reindex) ==
    [case_id |-> case_id, status |-> "running", started_at |-> "now",
     completed_at |-> Null, documents_synced |-> 0, chunks_created |-> 0,
     error_message |-> NoText, force_reindex |-> force_reindex]

\* sync_service.py lines 150-162; created_by and item say which run and which
\* position of its listing the row comes from
DocumentRow(id, case_id, evidence, file_hash, r, item) ==
    [id |-> id, case_id |-> case_id, document_name |-> evidence.filename,
     file_hash |-> file_hash, created_by |-> r, item |-> item]

\* ChunkRow that numbers the chunks from 1
ChunkRowOneBased(document_id, case_id, chunk_data, embedding) ==
    [document_id |-> document_id, case_id |-> case_id,
     chunk_index |-> chunk_data.chunk_index + 1, content |-> chunk_data.content,
     embedding |-> embedding, token_count |-> chunk_data.token_count]

\* sync_service.py lines 183-191
ChunkRow(document_id, case_id, chunk_data, embedding) ==
    [document_id |-> document_id, case_id |-> case_id,
     chunk_index |-> chunk_data.chunk_index, content |-> chunk_data.content,
     embedding |-> embedding, token_count |-> chunk_data.token_count]

\* sync_service.py line 182: zip(chunks_data, embeddings) stops at the shorter one
ChunkRows(document_id, case_id, chunks_data, embeddings) ==
    {ChunkRow(document_id, case_id, chunks_data[i], embeddings[i]) :
        i \in 1..Min(Len(chunks_data), Len(embeddings))}

\* The commit of flushed Document rows: the table accepts a row whatever the
\* file_hash of the rows it holds (app/db/models.py declares no uniqueness)
InsertDocuments(table, rows) == table \cup rows

TerminalStatus == {"completed", "completed_with_errors", "failed"}

\* get_sync_status (sync.py lines 236-254): the snapshot a status request returns
get_sync_status(job_id) ==
    [job_id |-> job_id, case_id |-> jobs[job_id].case_id, status |-> jobs[job_id].status,
     started_at |-> jobs[job_id].started_at, completed_at |-> jobs[job_id].completed_at,
     documents_synced |-> jobs[job_id].documents_synced,
     chunks_created |-> jobs[job_id].chunks_created,
     error_message |-> jobs[job_id].error_message]

----------------------------------------------------------------------------
(* One trigger request and the background task it schedules *)

Runs == 1..MaxRuns

NoFile == File("", "text", <<>>)

\* pc: idle -> rejected | scheduled -> get_case -> list -> (download -> dedup ->
\* embed)* -> finalize -> done, or hung when a call never returns
IdleRun ==
    [pc |-> "idle", case_id |-> 0, force_reindex |-> FALSE,
     http |-> 0,                \* status code of the trigger response
     trig_job |-> 0,            \* job_id of the trigger response
     job |-> 0,                 \* id of the row sync_case created
     evidences |-> <<>>, idx |-> 0,
     documents_synced |-> 0, chunks_created |-> 0, errors |-> <<>>,
     session |-> {},            \* Document rows flushed and not yet committed
     file_content |-> NoFile, file_hash |-> Null, text |-> <<>>, document_id |-> 0,
     raised |-> NoText,         \* str(e) of the exception sync_case raised
     broken |-> FALSE,          \* a commit of the session raised: every later
                                \* statement of the session raises until rollback()
     outcomes |-> <<>>,         \* history: what became of each item
     downloads |-> 0,           \* history: download_evidence calls made
     faulty |-> FALSE,          \* history: a remote call of this run failed
     auth_rejected |-> FALSE,   \* history: a remote call of this run was answered 401
     after |-> {}]              \* history: the runs that had ended when this began

\* JoinLines that joins with a semicolon
RECURSIVE JoinSemicolons(_)
JoinSemicolons(errors) ==
    IF errors = <<>> THEN <<>>
    ELSE IF Len(errors) = 1 THEN errors[1]
    ELSE errors[1] \o <<"; ">> \o JoinSemicolons(Tail(errors))

\* "\n".join(errors)
RECURSIVE JoinLines(_)
JoinLines(errors) ==
    IF errors = <<>> THEN <<>>
    ELSE IF Len(errors) = 1 THEN errors[1]
    ELSE errors[1] \o <<"\n">> \o JoinLines(Tail(errors))

\* One outcome of the history
Outcome(kind, saw_stored) == [kind |-> kind, saw_stored |-> saw_stored]

\* NextItem that passes over an evidence of the listing
NextItemSkipping(run) ==
    IF run.idx < Len(run.evidences)
    THEN [run EXCEPT !.pc = "download", !.idx = Min(@ + 2, Len(run.evidences))]
    ELSE [run EXCEPT !.pc = "finalize"]

\* Lines 118 and 208/134/142: on to the next evidence of the for loop, or out of it
NextItem(run) ==
    IF run.idx < Len(run.evidences)
    THEN [run EXCEPT !.pc = "download", !.idx = @ + 1]
    ELSE [run EXCEPT !.pc = "finalize"]

\* ItemError with break in place of continue
ItemErrorBreaks(run, msg, saw_stored) ==
    [run EXCEPT
        !.pc = "finalize",
        !.errors = Append(@, FilenameText(run.evidences[run.idx].filename) \o <<": ">> \o msg),
        !.outcomes = Append(@, Outcome("error", saw_stored))]

\* Lines 139-147 and 205-208: a per-item error is appended to errors and the loop
\* continues; the session is not rolled back
ItemError(run, msg, saw_stored) ==
    NextItem([run EXCEPT
        !.errors = Append(@, FilenameText(run.evidences[run.idx].filename) \o <<": ">> \o msg),
        !.outcomes = Append(@, Outcome("error", saw_stored))])

\* str(e) of what a session raises after a commit of it has raised, and of what
\* the commit raised
PendingRollback == <<"Can't reconnect until invalid transaction is rolled back">>
CommitError == <<"commit failed">>

\* Lines 194-198 and 205-208 when the commit of line 198 raises: the counters
\* were incremented before the commit, the rows of the transaction are lost, and
\* the per-item handler records the error; nothing rolls the session back
CommitFailed(run, chunks_data) ==
    ItemError([run EXCEPT !.session = {}, !.broken = TRUE, !.faulty = TRUE,
                          !.documents_synced = @ + 1,
                          !.chunks_created = @ + Len(chunks_data)],
              CommitError, FALSE)

\* Lines 132-134: the duplicate is skipped
SkipDuplicate(run) ==
    NextItem([run EXCEPT !.outcomes = Append(@, Outcome("skipped", TRUE))])

\* FinalStatus that does not look at errors
FinalStatusIgnoresErrors(errors) == "completed"

\* Line 211
FinalStatus(errors) == IF errors = <<>> THEN "completed" ELSE "completed_with_errors"

\* FinalizedJob that does not set completed_at
FinalizedJobNotStamped(job, run) ==
    [job EXCEPT !.status = IF run.errors = <<>> THEN "completed" ELSE "completed_with_errors",
                !.documents_synced = run.documents_synced,
                !.chunks_created = run.chunks_created,
                !.error_message = IF run.errors # <<>> THEN JoinLines(run.errors) ELSE @]

\* Lines 210-217: the job row after the loop
FinalizedJob(job, run) ==
    [job EXCEPT !.status = FinalStatus(run.errors),
                !.completed_at = "now",
                !.documents_synced = run.documents_synced,
                !.chunks_created = run.chunks_created,
                !.error_message = IF run.errors # <<>> THEN JoinLines(run.errors) ELSE @]

\* EmptyListingJob that takes the empty listing for a failure
EmptyListingJobFailed(job) ==
    [job EXCEPT !.status = "failed", !.completed_at = "now",
                !.error_message = <<"No evidence files found">>]

\* Lines 106-109: the job row when the listing is empty
EmptyListingJob(job) ==
    [job EXCEPT !.status = "completed", !.completed_at = "now",
                !.documents_synced = 0, !.chunks_created = 0]

\* FailedJob that leaves the row as it was
FailedJobNotUpdated(job, text) == job

\* Lines 232-234: the job row when an exception escapes
FailedJob(job, text) ==
    [job EXCEPT !.status = "failed", !.completed_at = "now", !.error_message = text]

\* FindDocumentsByHash that compares nothing and finds nothing
FindDocumentsByHashFindsNone(run, file_hash) == {}

\* Lines 249-252: the rows the session's SELECT sees, its own flushed rows included
\* (rows other sessions have not committed are not seen)
FindDocumentsByHash(run, file_hash) ==
    {d \in documents \cup run.session : d.file_hash = file_hash}

----------------------------------------------------------------------------
(* Actions: the trigger endpoint, the background task, and sync_case from one
   await to the next *)

\* A remote outcome may be drawn: "ok" always, a failure while the budget lasts
MayDraw(outcome) == outcome = "ok" \/ faults < MaxFaults

Drawn(outcome) == IF outcome = "ok" THEN faults ELSE faults + 1

\* TriggerJobs that inserts the job row before the case is looked up
TriggerJobsInsertFirst(case_data, case_id, force_reindex) ==
    Append(jobs, PendingJob(case_id, force_reindex))

\* sync.py lines 164-178 and 199-212: the SyncJob table after the trigger; the
\* row is inserted only after get_case has returned
TriggerJobs(case_data, case_id, force_reindex) ==
    IF case_data.ok THEN Append(jobs, PendingJob(case_id, force_reindex)) ELSE jobs

\* sync.py lines 199-212: the status of the error answer
TriggerError(case_data) == IF case_data.kind = "notfound" THEN 404 ELSE 500

\* sync.py lines 161-212: POST /sync/case/{case_id}
Trigger(r) ==
    /\ runs[r].pc = "idle"
    /\ \A q \in Runs : q < r => runs[q].pc # "idle"
    /\ \E case_id \in CaseIds, force_reindex \in BOOLEAN, outcome \in {"ok"} \cup RequestFaults :
          LET case_data == get_case(case_id, outcome)
          IN /\ MayDraw(outcome)
             /\ faults' = Drawn(outcome)
             /\ jobs' = TriggerJobs(case_data, case_id, force_reindex)
             /\ runs' = [runs EXCEPT ![r] =
                    IF case_data.ok
                    THEN [@ EXCEPT !.pc = "scheduled", !.case_id = case_id,
                                   !.force_reindex = force_reindex,
                                   !.http = 202, !.trig_job = Len(jobs) + 1]
                    ELSE [@ EXCEPT !.pc = "rejected", !.case_id = case_id,
                                   !.http = TriggerError(case_data)]]
    /\ UNCHANGED <<upstream, settings, documents, chunks, next_doc_id, ck, rq, ws, fc>>

\* sync.py lines 92-123 and sync_service.py lines 84-93: the background task starts
\* and sync_case inserts and commits its job row
RunStart(r) ==
    /\ runs[r].pc = "scheduled"
    /\ jobs' = Append(jobs, RunningJob(runs[r].case_id, runs[r].force_reindex))
    /\ runs' = [runs EXCEPT ![r] =
           [@ EXCEPT !.pc = "get_case", !.job = Len(jobs) + 1,
                     !.after = {q \in Runs : runs[q].pc = "done"}]]
    /\ UNCHANGED <<upstream, settings, documents, chunks, next_doc_id, faults, ck, rq, ws, fc>>

\* sync_service.py lines 228-237: the handler of an exception that escapes; the
\* commit of line 235 also commits what the session holds, and the exception is
\* raised again
Fail(r, kind, text) ==
    /\ jobs' = [jobs EXCEPT ![runs[r].job] = FailedJob(@, text)]
    /\ documents' = InsertDocuments(documents, runs[r].session)
    /\ runs' = [runs EXCEPT ![r] =
           [@ EXCEPT !.pc = "done", !.raised = text, !.session = {}, !.faulty = TRUE,
                     !.auth_rejected = @ \/ kind = "auth"]]

\* sync_service.py line 97
SyncGetCase(r) ==
    /\ runs[r].pc = "get_case"
    /\ \E outcome \in {"ok"} \cup RequestFaults :
          LET case_data == get_case(runs[r].case_id, outcome)
          IN /\ MayDraw(outcome)
             /\ faults' = Drawn(outcome)
             /\ IF case_data.ok
                THEN /\ runs' = [runs EXCEPT ![r] = [@ EXCEPT !.pc = "list"]]
                     /\ UNCHANGED <<jobs, documents>>
                ELSE Fail(r, case_data.kind, case_data.text)
    /\ UNCHANGED <<upstream, settings, chunks, next_doc_id, ck, rq, ws, fc>>

\* sync_service.py lines 101-116
SyncListEvidence(r) ==
    /\ runs[r].pc = "list"
    /\ \E outcome \in {"ok"} \cup RequestFaults :
          LET listed == list_case_evidence(runs[r].case_id, outcome)
          IN /\ MayDraw(outcome)
             /\ faults' = Drawn(outcome)
             /\ IF ~listed.ok THEN Fail(r, listed.kind, listed.text)
                ELSE IF listed.evidences = <<>>
                THEN /\ jobs' = [jobs EXCEPT ![runs[r].job] = EmptyListingJob(@)]
                     /\ runs' = [runs EXCEPT ![r] = [@ EXCEPT !.pc = "done"]]
                     /\ UNCHANGED documents
                ELSE /\ runs' = [runs EXCEPT ![r] =
                            [@ EXCEPT !.pc = "download", !.evidences = listed.evidences,
                                      !.idx = 1]]
                     /\ UNCHANGED <<jobs, documents>>
    /\ UNCHANGED <<upstream, settings, chunks, next_doc_id, ck, rq, ws, fc>>

\* sync_service.py lines 119-127: the download of the current evidence and its hash
SyncDownload(r) ==
    /\ runs[r].pc = "download"
    /\ \E outcome \in {"ok"} \cup DownloadFaults :
          LET got == download_evidence(runs[r].evidences[runs[r].idx], outcome)
              run == [runs[r] EXCEPT !.downloads = @ + 1]
          IN /\ MayDraw(outcome)
             /\ faults' = Drawn(outcome)
             /\ runs' = [runs EXCEPT ![r] =
                    IF got.ok
                    THEN [run EXCEPT !.pc = "dedup", !.file_content = got.content,
                                     !.file_hash = Sha256(got.content)]
                    ELSE ItemError([run EXCEPT !.faulty = TRUE,
                                               !.auth_rejected = @ \/ outcome = "unauthorized"],
                                   got.text, FALSE)]
    /\ UNCHANGED <<upstream, settings, jobs, documents, chunks, next_doc_id, ck, rq, ws, fc>>

\* sync_service.py lines 129-164: the duplicate check, the extraction, and the
\* flush of the new Document row.  scalar_one_or_none raises MultipleResultsFound
\* when the SELECT returns more than one row.
SyncDedupExtract(r) ==
    /\ runs[r].pc = "dedup"
    /\ LET run      == runs[r]
           evidence == run.evidences[run.idx]
           found    == IF run.force_reindex THEN {} ELSE FindDocumentsByHash(run, run.file_hash)
           text     == extract_text(evidence.filename, run.file_content)
       IN IF run.broken /\ ~run.force_reindex
          THEN /\ runs' = [runs EXCEPT ![r] = ItemError(run, PendingRollback, FALSE)]
               /\ UNCHANGED next_doc_id
          ELSE IF Cardinality(found) > 1
          THEN /\ runs' = [runs EXCEPT ![r] = ItemError(run,
                       <<"Multiple rows were found when one or none was required">>, TRUE)]
               /\ UNCHANGED next_doc_id
          ELSE IF Cardinality(found) = 1
          THEN /\ runs' = [runs EXCEPT ![r] = SkipDuplicate(run)]
               /\ UNCHANGED next_doc_id
          ELSE IF ~text.ok
          THEN /\ runs' = [runs EXCEPT ![r] = ItemError(run, text.error, FALSE)]
               /\ UNCHANGED next_doc_id
          ELSE IF IsBlank(text.text)
          THEN /\ runs' = [runs EXCEPT ![r] = ItemError(run, <<"No text content">>, FALSE)]
               /\ UNCHANGED next_doc_id
          ELSE IF run.broken
          THEN /\ runs' = [runs EXCEPT ![r] = ItemError(run, PendingRollback, FALSE)]
               /\ UNCHANGED next_doc_id
          ELSE /\ runs' = [runs EXCEPT ![r] =
                      [run EXCEPT !.pc = "embed", !.text = text.text,
                                  !.document_id = next_doc_id,
                                  !.session = @ \cup {DocumentRow(next_doc_id, run.case_id,
                                                        evidence, run.file_hash, r, run.idx)}]]
               /\ next_doc_id' = next_doc_id + 1
    /\ UNCHANGED <<upstream, settings, jobs, documents, chunks, faults, ck, rq, ws, fc>>

\* The chunk_text call of line 167 under the settings of this process
Chunked(run) == ChunkText(run.text, settings.CHUNK_SIZE, settings.CHUNK_OVERLAP)

\* StoreItem that counts the item and goes on without the commit
StoreItemNotCommitted(run, chunks_data, embeddings) ==
    [documents |-> documents,
     chunks    |-> chunks,
     run       |-> NextItem([run EXCEPT !.documents_synced = @ + 1,
                                        !.chunks_created = @ + Len(chunks_data),
                                        !.outcomes = Append(@, Outcome("stored", FALSE))])]

\* StoreItem that replaces the stored rows of the same content hash (an upsert)
StoreItemUpserting(run, chunks_data, embeddings) ==
    LET replaced == {d \in documents : \E n \in run.session : n.file_hash = d.file_hash}
    IN [documents |-> (documents \ replaced) \cup run.session,
        chunks    |-> {c \in chunks : \A d \in replaced : c.document_id # d.id} \cup
                      ChunkRows(run.document_id, run.case_id, chunks_data, embeddings),
        run       |-> NextItem([run EXCEPT !.session = {},
                                           !.documents_synced = @ + 1,
                                           !.chunks_created = @ + Len(chunks_data),
                                           !.outcomes = Append(@, Outcome("stored", FALSE))])]

\* sync_service.py lines 182-198: the Chunk rows are added, the counters are
\* incremented and the session is committed, before the loop goes on: the two
\* tables and the run after the commit
StoreItem(run, chunks_data, embeddings) ==
    [documents |-> InsertDocuments(documents, run.session),
     chunks    |-> chunks \cup
                   ChunkRows(run.document_id, run.case_id, chunks_data, embeddings),
     run       |-> NextItem([run EXCEPT !.session = {},
                                        !.documents_synced = @ + 1,
                                        !.chunks_created = @ + Len(chunks_data),
                                        !.outcomes = Append(@, Outcome("stored", FALSE))])]

\* sync_service.py lines 166-198: chunk_text returns, embed_batch returns or raises,
\* the Chunk rows are added and the session is committed
SyncChunkEmbedStore(r) ==
    /\ runs[r].pc = "embed"
    /\ Chunked(runs[r]).pc = "done"
    /\ \E outcome \in {"ok", "raise"} :
          LET run         == runs[r]
              chunks_data == Chunked(run).chunks
              chunk_texts == [i \in 1..Len(chunks_data) |-> chunks_data[i].content]
              embeddings  == embed_batch(chunk_texts)
          IN /\ MayDraw(outcome)
             /\ faults' = Drawn(outcome)
             /\ IF outcome = "raise"
                THEN /\ runs' = [runs EXCEPT ![r] = ItemError(run,
                             <<"Embedding model not loaded. Call warm_up() first.">>, FALSE)]
                     /\ UNCHANGED <<documents, chunks>>
                ELSE /\ documents' = StoreItem(run, chunks_data, embeddings).documents
                     /\ chunks' = StoreItem(run, chunks_data, embeddings).chunks
                     /\ runs' = [runs EXCEPT ![r] = StoreItem(run, chunks_data, embeddings).run]
    /\ UNCHANGED <<upstream, settings, jobs, next_doc_id, ck, rq, ws, fc>>

\* sync_service.py lines 166-198 when the commit of line 198 raises
SyncCommitFails(r) ==
    /\ runs[r].pc = "embed"
    /\ Chunked(runs[r]).pc = "done"
    /\ MayDraw("raise")
    /\ faults' = Drawn("raise")
    /\ runs' = [runs EXCEPT ![r] = CommitFailed(runs[r], Chunked(runs[r]).chunks)]
    /\ UNCHANGED <<upstream, settings, jobs, documents, chunks, next_doc_id, ck, rq, ws, fc>>

\* chunker.py lines 96-131 when the loop does not end: the call never returns, and
\* the task makes no further step
SyncChunkNeverReturns(r) ==
    /\ runs[r].pc = "embed"
    /\ Chunked(runs[r]).pc = "diverge"
    /\ runs' = [runs EXCEPT ![r] = [@ EXCEPT !.pc = "hung"]]
    /\ UNCHANGED <<upstream, settings, jobs, documents, chunks, next_doc_id, faults, ck, rq, ws, fc>>

\* chunker.py line 118 when the loop does not end and the allocator gives up: the
\* growing list raises MemoryError, which line 205 of sync_service.py catches
SyncChunkMemoryError(r) ==
    /\ runs[r].pc = "embed"
    /\ Chunked(runs[r]).pc = "diverge"
    /\ runs' = [runs EXCEPT ![r] = ItemError(runs[r], <<>>, FALSE)]
    /\ UNCHANGED <<upstream, settings, jobs, documents, chunks, next_doc_id, faults, ck, rq, ws, fc>>

\* sync_service.py lines 210-226; on a session whose commit has raised, the
\* commit of line 219 raises, the handler of lines 228-237 sets the job failed and
\* its commit of line 235 raises too: the exception leaves sync_case and the
\* stored job row is what it was
SyncFinalize(r) ==
    /\ runs[r].pc = "finalize"
    /\ IF runs[r].broken
       THEN /\ runs' = [runs EXCEPT ![r] =
                   [@ EXCEPT !.pc = "done", !.session = {}, !.raised = PendingRollback]]
            /\ UNCHANGED <<jobs, documents>>
       ELSE /\ jobs' = [jobs EXCEPT ![runs[r].job] = FinalizedJob(@, runs[r])]
            /\ documents' = InsertDocuments(documents, runs[r].session)
            /\ runs' = [runs EXCEPT ![r] = [@ EXCEPT !.pc = "done", !.session = {}]]
    /\ UNCHANGED <<upstream, settings, chunks, next_doc_id, faults, ck, rq, ws, fc>>

----------------------------------------------------------------------------
(* Specifications *)

Init ==
    /\ upstream \in Upstreams
    /\ settings \in ChunkerSettings
    /\ jobs = <<>>
    /\ documents = {}
    /\ chunks = {}
    /\ runs = [r \in Runs |-> IdleRun]
    /\ next_doc_id = 1
    /\ faults = 0
    /\ ck = IdleCk
    /\ rq = IdleRq
    /\ ws = IdleWs
    /\ fc = IdleFc

Next ==
    \E r \in Runs :
        \/ Trigger(r)
        \/ RunStart(r)
        \/ SyncGetCase(r)
        \/ SyncListEvidence(r)
        \/ SyncDownload(r)
        \/ SyncDedupExtract(r)
        \/ SyncChunkEmbedStore(r)
        \/ SyncChunkNeverReturns(r)
        \/ SyncChunkMemoryError(r)
        \/ SyncFinalize(r)

\* The sync pipeline: triggers and their background tasks, interleaved at awaits
Spec == Init /\ [][Next]_vars

StorageNext == Next \/ \E r \in Runs : SyncCommitFails(r)

\* The sync pipeline over a storage whose commit of an item may raise
StorageSpec == Init /\ [][StorageNext]_vars

ChunkInit ==
    /\ upstream = (1 :> <<>>) @@ (2 :> <<>>)
    /\ settings = [CHUNK_SIZE |-> 2, CHUNK_OVERLAP |-> 0]
    /\ jobs = <<>>
    /\ documents = {}
    /\ chunks = {}
    /\ runs = [r \in Runs |-> IdleRun]
    /\ next_doc_id = 1
    /\ faults = 0
    /\ ck \in {c \in ChunkInputs : c.chunk_overlap < c.chunk_size}
    /\ rq = IdleRq
    /\ ws = IdleWs
    /\ fc = IdleFc

ChunkNext == ChunkStepEnter \/ ChunkStepIterate

\* One chunk_text call on any text and any configuration with 0 <= O < C
ChunkSpec == ChunkInit /\ [][ChunkNext]_vars

\* chunker.py lines 23-49 construct the chunker with any two numbers: here with
\* chunk_overlap >= chunk_size
ChunkOverlapInit ==
    /\ upstream = (1 :> <<>>) @@ (2 :> <<>>)
    /\ settings = [CHUNK_SIZE |-> 2, CHUNK_OVERLAP |-> 0]
    /\ jobs = <<>>
    /\ documents = {}
    /\ chunks = {}
    /\ runs = [r \in Runs |-> IdleRun]
    /\ next_doc_id = 1
    /\ faults = 0
    /\ ck \in {c \in ChunkInputs : c.chunk_overlap >= c.chunk_size}
    /\ rq = IdleRq
    /\ ws = IdleWs
    /\ fc = IdleFc

\* One chunk_text call of a chunker constructed with chunk_overlap >= chunk_size
ChunkOverlapSpec == ChunkOverlapInit /\ [][ChunkNext]_vars

\* No sync run: the database is empty and no trigger arrives
NoSync ==
    /\ upstream = (1 :> <<>>) @@ (2 :> <<>>)
    /\ settings = [CHUNK_SIZE |-> 2, CHUNK_OVERLAP |-> 0]
    /\ jobs = <<>>
    /\ documents = {}
    /\ chunks = {}
    /\ runs = [r \in Runs |-> IdleRun]
    /\ next_doc_id = 1
    /\ faults = 0

ClientInit ==
    /\ NoSync
    /\ ck = IdleCk
    /\ rq \in ClientInputs
    /\ ws = IdleWs
    /\ fc = IdleFc

ClientNext == RequestStep \/ RequestWait \/ DownloadStep \/ HealthReturn

\* One client call against an upstream that answers by a prepared script
ClientSpec == ClientInit /\ [][ClientNext]_vars

CallInit ==
    /\ NoSync
    /\ ck = IdleCk
    /\ rq = IdleRq
    /\ ws = IdleWs
    /\ \/ fc \in EmbedInputs
       \/ fc \in GetCaseInputs
       \/ fc \in ExtractInputs

CallNext == EmbedBatchCall \/ GetCaseCall \/ ExtractTextCall

\* One call of a function of the pipeline on inputs of every shape
CallSpec == CallInit /\ [][CallNext]_vars

WarmInit ==
    /\ NoSync
    /\ ck = IdleCk
    /\ rq = IdleRq
    /\ ws \in {ClassState(kinds) : kinds \in [Callers -> CallerKinds]}
    /\ fc = IdleFc

WarmNext ==
    \E c \in Callers :
        \/ WarmStart(c)
        \/ WarmAcquire(c)
        \/ WarmConstruct(c)
        \/ WarmEncode(c)

\* The tasks of one process that ask for the embedding model, interleaved at awaits
WarmSpec == WarmInit /\ [][WarmNext]_vars

----------------------------------------------------------------------------
(* Properties of chunk_text (ChunkSpec) *)

CeilDiv(a, b) == (a + b - 1) \div b

\* The chunk count the specification gives for T tokens
ExpectedChunkCount(T, C, O) ==
    IF T = 0 THEN 0
    ELSE IF T <= C THEN 1
    ELSE CeilDiv(Max(T - O, 0), C - O)

\* C2: chunk_text terminates for T >= 1 and 0 <= O < C: the window loop stops once
\* start >= T or once a step fails to advance, so an iteration after which the loop
\* goes on has moved start_idx strictly forward (T - start_idx is the variant).
C2_LoopStopsOrAdvances ==
    [][(ck.pc = "loop" /\ ck'.pc = "loop") => ck'.start_idx > ck.start_idx]_vars

\* C3: for 0 <= O < C a returned chunk list has ceil(max(T-O,0)/(C-O)) chunks:
\* 0 if T = 0, 1 if 0 < T <= C, ceil(T/C) when O = 0.
C3_ChunkCount ==
    (ck.pc = "done" /\ ~IsBlank(ck.tokens)) =>
        Len(ck.chunks) = ExpectedChunkCount(Len(ck.tokens), ck.chunk_size, ck.chunk_overlap)

\* C4: the returned windows start at token 0, each spans [start, min(start+C, T)),
\* each next one starts at the previous end minus O, the last one ends at T, and
\* token_count = end - start.
C4_Windows ==
    (ck.pc = "done" /\ ~IsBlank(ck.tokens)) =>
        LET T == Len(ck.tokens)
            w == ck.chunks
        IN /\ Len(w) >= 1
           /\ w[1].start_token = 0
           /\ \A i \in DOMAIN w :
                 /\ w[i].end_token = Min(w[i].start_token + ck.chunk_size, T)
                 /\ w[i].token_count = w[i].end_token - w[i].start_token
                 /\ i > 1 => w[i].start_token = w[i - 1].end_token - ck.chunk_overlap
           /\ w[Len(w)].end_token = T

----------------------------------------------------------------------------
(* Properties of the sync pipeline (Spec) *)

Job(r) == jobs[runs[r].job]

\* The background task of r has begun / has ended
Begun(r) == runs[r].job # 0
Finished(r) == runs[r].pc = "done"

\* sync_case returned from after the loop (not from the empty-listing return, not
\* by raising)
LoopFinished(r) == Finished(r) /\ runs[r].raised = NoText /\ runs[r].evidences # <<>>

OutcomeKinds(r) == {runs[r].outcomes[i].kind : i \in DOMAIN runs[r].outcomes}

\* C1: the SyncJob whose id the trigger returned is the record the background run
\* drives: it leaves pending once the run has begun, and once the run has finished
\* its status snapshot is terminal and carries the run's counters and error text.
C1_TriggeredJobIsDriven ==
    \A r \in Runs :
        /\ Begun(r) => get_sync_status(runs[r].trig_job).status # "pending"
        /\ Finished(r) =>
              /\ get_sync_status(runs[r].trig_job).status \in TerminalStatus
              /\ get_sync_status(runs[r].trig_job).documents_synced = runs[r].documents_synced
              /\ get_sync_status(runs[r].trig_job).chunks_created = runs[r].chunks_created
              /\ get_sync_status(runs[r].trig_job).error_message = Job(r).error_message

\* C5: a committed Document row always has its Chunk rows committed with it, and
\* there is none for an item its run recorded as a per-item error.
C5_DocumentOnlyWithChunks ==
    \A d \in documents :
        /\ \E c \in chunks : c.document_id = d.id
        /\ d.item \in DOMAIN runs[d.created_by].outcomes =>
              runs[d.created_by].outcomes[d.item].kind # "error"

C7_FinalStatusFollowsErrors ==
    \A r \in Runs :
        LoopFinished(r) =>
            /\ Job(r).status = "completed" <=> "error" \notin OutcomeKinds(r)
            /\ Job(r).status = "completed_with_errors" <=> "error" \in OutcomeKinds(r)
            /\ Job(r).completed_at # Null

C7_Witness_AllSkippedCompleted ==
    \E r \in Runs :
        /\ LoopFinished(r)
        /\ OutcomeKinds(r) = {"skipped"}
        /\ Job(r).status = "completed"

SecondSync(a, b) ==
    /\ a # b
    /\ a \in runs[b].after
    /\ runs[a].case_id = runs[b].case_id
    /\ ~runs[a].force_reindex /\ ~runs[b].force_reindex
    /\ ~runs[a].faulty

RowsOf(r) == {d \in documents \cup runs[r].session : d.created_by = r}

\* C9: a second sync of the same case with force_reindex = false against the same
\* upstream content counts documents_synced = 0 and chunks_created = 0 and adds
\* no Document and no Chunk row.
C9_SecondSyncAddsNothing ==
    \A a \in Runs, b \in Runs :
        SecondSync(a, b) =>
            /\ runs[b].documents_synced = 0
            /\ runs[b].chunks_created = 0
            /\ Job(b).documents_synced = 0
            /\ Job(b).chunks_created = 0
            /\ RowsOf(b) = {}
            /\ \A c \in chunks : \A d \in documents :
                  c.document_id = d.id => d.created_by # b

C9_Witness_SecondSyncSkips ==
    \E a \in Runs, b \in Runs :
        /\ SecondSync(a, b)
        /\ Job(a).documents_synced > 0
        /\ LoopFinished(b)
        /\ "skipped" \in OutcomeKinds(b)
        /\ Job(b).documents_synced = 0

\* C10: without force_reindex, an evidence item whose hash is that of a stored
\* Document is skipped: no Document, no Chunk, no counter, no error.
C10_StoredHashIsSkipped ==
    \A r \in Runs :
        ~runs[r].force_reindex =>
            \A i \in DOMAIN runs[r].outcomes :
                runs[r].outcomes[i].saw_stored => runs[r].outcomes[i].kind = "skipped"

\* C11: after any sequence of sync runs, whatever their case ids and force_reindex
\* values, no two stored Document rows have the same content hash.
C11_ContentHashUnique ==
    \A d \in documents : \A e \in documents :
        d.file_hash = e.file_hash => d = e

----------------------------------------------------------------------------
(* Properties of the client (ClientSpec) *)

Transient(response) == response \in {"network", "timeout"}

\* The kind of error a caller is given: the classes of iris_client.py lines 27-39;
\* RetryError and the two httpx classes are raised for transport failures only
ErrorKind(exc) ==
    CASE exc = "IrisAuthenticationError" -> "auth"
      [] exc = "IrisNotFoundError" -> "notfound"
      [] exc = "IrisAPIError" -> "api"
      [] exc \in {"RetryError", "NetworkError", "TimeoutException"} -> "transient"
      [] OTHER -> "none"

CallEnded == rq.pc \in {"returned", "raised"}

\* C12: a request whose first two attempts fail with a network or timeout error
\* and whose third succeeds returns the result; one whose every attempt fails so
\* ends after exactly 3 attempts, and raises the transient-error kind.
C12_RetryBound ==
    rq.op = "request" =>
        /\ rq.attempts <= 3
        /\ (CallEnded /\ Transient(rq.script[1]) /\ Transient(rq.script[2])
                      /\ rq.script[3] = "200") =>
              (rq.pc = "returned" /\ rq.attempts = 3)
        /\ (CallEnded /\ \A i \in 1..3 : Transient(rq.script[i])) =>
              (rq.pc = "raised" /\ rq.attempts = 3 /\ ErrorKind(rq.exc) = "transient")

C12_Witness_RetriesExhausted ==
    /\ rq.op = "request"
    /\ \A i \in 1..3 : Transient(rq.script[i])
    /\ rq.pc = "raised"
    /\ rq.attempts = 3
    /\ rq.exc = "RetryError"

\* C13: a request answered 401 or 404 ends after exactly 1 attempt with the
\* authentication error or the not-found error; answered by any other non-2xx
\* status it ends after exactly 1 attempt with the generic API error.
C13_NoRetryOnStatus ==
    (rq.op = "request" /\ rq.attempts >= 1
        /\ rq.script[1] \in {"401", "404", "500", "304"}) =>
        /\ rq.attempts = 1
        /\ rq.pc = "raised"
        /\ rq.exc = CASE rq.script[1] = "401" -> "IrisAuthenticationError"
                      [] rq.script[1] = "404" -> "IrisNotFoundError"
                      [] OTHER -> "IrisAPIError"
        /\ ErrorKind(rq.exc) = CASE rq.script[1] = "401" -> "auth"
                                 [] rq.script[1] = "404" -> "notfound"
                                 [] OTHER -> "api"

C13_Witness_AuthAfterOneAttempt ==
    /\ rq.op = "request"
    /\ rq.script[1] = "401"
    /\ rq.pc = "raised"
    /\ rq.attempts = 1
    /\ rq.exc = "IrisAuthenticationError"

\* C14: download_evidence is retried like every remote operation: a network or
\* timeout failure is followed by another attempt, up to 3 in total, and what is
\* raised after the third is the transient-error kind.
C14_DownloadRetried ==
    (rq.op = "download" /\ CallEnded /\ Transient(rq.script[1])) =>
        IF \A i \in 1..3 : Transient(rq.script[i])
        THEN rq.pc = "raised" /\ rq.attempts = 3 /\ ErrorKind(rq.exc) = "transient"
        ELSE rq.attempts > 1

----------------------------------------------------------------------------
(* Properties of the sync pipeline (Spec), continued *)

\* C15: a 401 answer to any remote call of a sync run (case lookup, evidence
\* listing, evidence download) is fatal to the job: sync_case raises the
\* authentication error, the job ends failed, and no further item is processed.
C15_AuthRejectionIsFatal ==
    \A r \in Runs :
        runs[r].auth_rejected =>
            /\ runs[r].pc = "done"
            /\ runs[r].raised = RequestErrorText("auth")
            /\ Job(r).status = "failed"

StatusStep(old, new) ==
    \/ new = old
    \/ old = "pending" /\ new = "running"
    \/ old = "running" /\ new \in TerminalStatus

\* C16: for every stored SyncJob row, the status changes only along pending ->
\* running -> {completed, completed_with_errors, failed}, a stored terminal status
\* never changes again, and completed_at is non-null exactly when the status is
\* terminal.
C16_JobStatusLifecycle ==
    /\ [](\A j \in DOMAIN jobs :
             /\ jobs[j].status \in {"pending", "running"} \cup TerminalStatus
             /\ jobs[j].completed_at # Null <=> jobs[j].status \in TerminalStatus)
    /\ [][\A j \in DOMAIN jobs :
             /\ j \in DOMAIN jobs'
             /\ StatusStep(jobs[j].status, jobs'[j].status)
             /\ jobs[j].status \in TerminalStatus => jobs'[j] = jobs[j]]_vars

C16_Witness_RunningThenTerminal ==
    \E r \in Runs :
        /\ Finished(r)
        /\ Job(r).status \in TerminalStatus
        /\ Job(r).started_at # Null
        /\ Job(r).completed_at # Null
        /\ \E q \in Runs : runs[q].pc \in {"get_case", "list", "download", "dedup", "embed"}
                           /\ Job(q).status = "running" /\ Job(q).completed_at = Null

\* The Chunk rows lines 166-192 add for the Document row d of item i of run r
ItemChunkRows(r, i, d) ==
    LET evidence    == runs[r].evidences[i]
        text        == extract_text(evidence.filename, evidence.content).text
        chunks_data == ChunkText(text, settings.CHUNK_SIZE, settings.CHUNK_OVERLAP).chunks
        chunk_texts == [k \in 1..Len(chunks_data) |-> chunks_data[k].content]
    IN ChunkRows(d.id, d.case_id, chunks_data, embed_batch(chunk_texts))

\* C17: within one run the Document and the Chunks of every item processed with
\* success are committed before the download of the next item begins: whenever
\* the run has gone on past such an item (and so wherever it is abandoned after
\* that), the rows of the items stored so far are in the committed tables.
C17_StoredBeforeNextItem ==
    \A r \in Runs :
        \A i \in DOMAIN runs[r].outcomes :
            runs[r].outcomes[i].kind = "stored" =>
                \E d \in documents :
                    /\ d.created_by = r /\ d.item = i
                    /\ d \notin runs[r].session
                    /\ ItemChunkRows(r, i, d) \subseteq chunks

C17_Witness_FirstStoredSecondDownloading ==
    \E r \in Runs :
        /\ runs[r].pc = "download"
        /\ runs[r].idx = 2
        /\ runs[r].outcomes[1].kind = "stored"
        /\ \E d \in documents : d.created_by = r /\ d.item = 1
                                /\ \E c \in chunks : c.document_id = d.id

\* The positions of sync_case from its first remote call to its last commit
InSyncCase == {"get_case", "list", "download", "dedup", "embed", "finalize", "hung"}

\* C18: sync_case commits its job row with status running and started_at set
\* before it issues any remote call: while the case lookup is in flight, and at
\* every later position before the final commit, a status reader finds the row
\* running with started_at set; no remote call is made without the row.
C18_RunningBeforeRemoteCalls ==
    \A r \in Runs :
        /\ runs[r].pc \in InSyncCase =>
              /\ runs[r].job \in DOMAIN jobs
              /\ get_sync_status(runs[r].job).status = "running"
              /\ get_sync_status(runs[r].job).started_at # Null
              /\ get_sync_status(runs[r].job).completed_at = Null
        /\ runs[r].job = 0 => (runs[r].downloads = 0 /\ runs[r].evidences = <<>>)

C18_Witness_LookupInFlight ==
    \E r \in Runs :
        /\ runs[r].pc = "get_case"
        /\ get_sync_status(runs[r].job).status = "running"
        /\ get_sync_status(runs[r].job).started_at = "now"

\* sync_case returned from the empty-listing branch
EmptyListingReturned(r) ==
    /\ Finished(r)
    /\ runs[r].raised = NoText
    /\ upstream[runs[r].case_id] = <<>>

\* C19: when the evidence listing of the case is empty the job is finalized at
\* once as completed with documents_synced = 0, chunks_created = 0, completed_at
\* set and no error_message, and nothing is downloaded, extracted, chunked,
\* embedded or stored.
C19_EmptyListingCompletes ==
    \A r \in Runs :
        EmptyListingReturned(r) =>
            /\ Job(r).status = "completed"
            /\ Job(r).documents_synced = 0
            /\ Job(r).chunks_created = 0
            /\ Job(r).completed_at # Null
            /\ Job(r).error_message = NoText
            /\ runs[r].downloads = 0
            /\ runs[r].outcomes = <<>>
            /\ runs[r].text = <<>> /\ runs[r].document_id = 0
            /\ RowsOf(r) = {}

C19_Witness_EmptyCaseCompleted ==
    \E r \in Runs :
        /\ EmptyListingReturned(r)
        /\ Job(r).status = "completed"
        /\ Job(r).completed_at = "now"

----------------------------------------------------------------------------
(* Properties of the model initialization (WarmSpec) *)

Loading == {c \in Callers : ws.callers[c].pc \in {"construct", "encode"}}

\* C20: under any interleaving of the callers of warm_up the embedding model is
\* loaded at most once: at most one caller is loading at a time, once a load has
\* returned an instance nobody loads again, and every caller that is served uses
\* that one cached instance.
C20_ModelLoadedOnce ==
    /\ ws.loads <= 1
    /\ Cardinality(Loading) <= 1
    /\ ws.model # 0 => \A c \in Callers : ws.callers[c].pc # "construct"
    /\ \A c \in Callers :
          ws.callers[c].pc = "done" => (ws.callers[c].saw = ws.model /\ ws.model = 1)

C20_Witness_SecondCallerReusesModel ==
    /\ ws.loads = 1
    /\ ws.loaded
    /\ \E c \in Callers, d \in Callers :
          /\ c # d
          /\ ws.callers[c].pc = "done" /\ ws.callers[d].pc = "done"
          /\ ws.callers[c].saw = 1 /\ ws.callers[d].saw = 1

----------------------------------------------------------------------------
(* Properties of single calls (CallSpec) *)

\* C21: embed_batch returns a sequence as long as its input whose i-th vector is
\* computed from the i-th text, for every input length and every sub-batch size
\* >= 1; an empty input returns an empty list.
C21_EmbedBatchSameLength ==
    (fc.op = "embed_batch" /\ fc.pc = "returned") =>
        /\ Len(fc.ret) = Len(fc.texts)
        /\ \A i \in 1..Len(fc.texts) : fc.ret[i] = Encode(fc.texts[i])

----------------------------------------------------------------------------
(* Properties of chunk_text with chunk_overlap >= chunk_size (ChunkOverlapSpec) *)

\* C22: a chunker configured with overlap O >= chunk size C is rejected or
\* clamped, so chunk_text never loops without bound: whenever the chunker holds
\* such a pair, an iteration after which the loop goes on has moved start_idx
\* strictly forward.
C22_OverlapAtLeastSizeStops ==
    [][(ck.chunk_overlap >= ck.chunk_size /\ ck.pc = "loop") =>
          (ck'.pc = "done" \/ ck'.start_idx > ck.start_idx)]_vars

----------------------------------------------------------------------------
(* Properties of the sync pipeline (Spec), continued *)

\* The chunks chunk_text returns for item i of run r (line 167)
ItemChunksData(r, i) ==
    LET evidence == runs[r].evidences[i]
        text     == extract_text(evidence.filename, evidence.content).text
    IN ChunkText(text, settings.CHUNK_SIZE, settings.CHUNK_OVERLAP).chunks

ChunkRowsOf(d) == {c \in chunks : c.document_id = d.id}

\* C23: the chunk_index values of the N Chunk rows stored for a document are
\* exactly 0..N-1, without gap or duplicate, and the row of index k carries the
\* k-th chunk the chunker produced.
C23_ChunkIndicesSequential ==
    \A d \in documents :
        LET rows == ChunkRowsOf(d)
            data == ItemChunksData(d.created_by, d.item)
        IN /\ {c.chunk_index : c \in rows} = 0..(Cardinality(rows) - 1)
           /\ \A c \in rows :
                 /\ c.chunk_index + 1 \in DOMAIN data
                 /\ data[c.chunk_index + 1].chunk_index = c.chunk_index
                 /\ data[c.chunk_index + 1].content = c.content

C23_Witness_DocumentWithChunkZero ==
    \E d \in documents :
        /\ Cardinality(ChunkRowsOf(d)) >= 1
        /\ \E c \in ChunkRowsOf(d) : c.chunk_index = 0 /\ c.content # <<>>

\* The run whose task takes this step
Mover(r) == runs'[r] # runs[r]

\* C24 as amended: no job changes or removes a SyncJob, Document or Chunk row of
\* another job: a step of a run changes no job row but its own, removes no row,
\* and adds only Document rows it created and Chunk rows of those.  (The rows
\* of other jobs are read, by the duplicate check.)
C24_NoCrossJobWrites ==
    [][\A r \in Runs :
          Mover(r) =>
              /\ \A j \in DOMAIN jobs :
                    /\ j \in DOMAIN jobs'
                    /\ jobs'[j] # jobs[j] => j = runs[r].job
              /\ \A d \in documents : d.created_by # r => d \in documents'
              /\ \A c \in chunks : c \in chunks'
              /\ \A d \in documents' \ documents : d.created_by = r
              /\ \A c \in chunks' \ chunks :
                    \E d \in documents' : d.id = c.document_id /\ d.created_by = r]_vars

\* Item i of run b was skipped on a Document row another run stored, and that
\* row is still stored
C24_Witness_SkippedOnAnotherJobsRow ==
    \E b \in Runs :
        \E i \in DOMAIN runs[b].outcomes :
            /\ runs[b].outcomes[i].kind = "skipped"
            /\ RowsOf(b) = {}
            /\ \E d \in documents :
                  /\ d.created_by # b
                  /\ d.file_hash = Sha256(runs[b].evidences[i].content)
                  /\ ChunkRowsOf(d) # {}

\* C24: no job reads a row created by another job, so what becomes of an item
\* depends on the job's own case only: an item for which the duplicate check
\* found a stored Document was found on a row of the job itself.
C24_NoCrossJobReads ==
    \A r \in Runs :
        \A i \in DOMAIN runs[r].outcomes :
            runs[r].outcomes[i].saw_stored =>
                \E d \in documents \cup runs[r].session :
                    /\ d.created_by = r
                    /\ d.file_hash = Sha256(runs[r].evidences[i].content)

Accepted == {r \in Runs : runs[r].http = 202}

\* C25: each accepted trigger creates exactly one SyncJob record: once the
\* background runs of all accepted triggers have finished, there are as many
\* SyncJob rows as accepted triggers and none of them is pending.
C25_OneJobPerTrigger ==
    (\A r \in Accepted : Finished(r)) =>
        /\ Len(jobs) = Cardinality(Accepted)
        /\ \A j \in DOMAIN jobs : jobs[j].status # "pending"

\* C26: within one job the evidence items are processed in the order of the
\* listing and one at a time: the k-th download is that of the k-th item and
\* begins when the k-1 items before it have their outcome, the item in work is
\* the one downloaded last, and the Document rows of the job follow the listing.
C26_ItemsInOrderOneAtATime ==
    \A r \in Runs :
        LET run == runs[r]
        IN /\ run.pc = "download" =>
                 (run.downloads = run.idx - 1 /\ Len(run.outcomes) = run.idx - 1)
           /\ run.pc \in {"dedup", "embed", "hung"} =>
                 /\ run.downloads = run.idx
                 /\ Len(run.outcomes) = run.idx - 1
                 /\ run.file_content = run.evidences[run.idx].content
           /\ run.pc = "finalize" => run.downloads = Len(run.evidences)
           /\ \A d \in RowsOf(r) :
                 /\ d.item <= run.idx
                 /\ d.document_name = run.evidences[d.item].filename
                 /\ \A e \in RowsOf(r) : d.item < e.item => d.id < e.id

C26_Witness_ThirdItemInWork ==
    \E r \in Runs :
        /\ runs[r].pc = "dedup"
        /\ runs[r].idx = 3
        /\ runs[r].downloads = 3
        /\ Len(runs[r].outcomes) = 2
        /\ runs[r].file_content = runs[r].evidences[3].content

CommittedDocuments(r) == {d \in documents : d.created_by = r}

CommittedChunks(r) ==
    {c \in chunks : \E d \in CommittedDocuments(r) : d.id = c.document_id}

\* C30: when a job is finalized after the loop, documents_synced is the number
\* of Document rows the run committed and chunks_created the number of Chunk
\* rows it committed.
C30_CountersMatchRows ==
    \A r \in Runs :
        LoopFinished(r) =>
            /\ Job(r).documents_synced = Cardinality(CommittedDocuments(r))
            /\ Job(r).chunks_created = Cardinality(CommittedChunks(r))

\* The identifiers of the entries of the listing get_case was answered with
ListedIds == {fc.response.data[i].case_id : i \in DOMAIN fc.response.data}

\* C27: on the listing the upstream returned, get_case raises the not-found
\* error if and only if no entry of the listing has the identifier asked for,
\* and otherwise returns the entry whose case_id is that identifier.
C27_GetCaseFiltersById ==
    (fc.op = "get_case" /\ fc.pc # "call" /\ fc.response.status = "success") =>
        /\ (fc.pc = "raised" /\ fc.exc = "IrisNotFoundError") <=> fc.case_id \notin ListedIds
        /\ fc.case_id \in ListedIds =>
              /\ fc.pc = "returned"
              /\ fc.case.case_id = fc.case_id
              /\ \E i \in DOMAIN fc.response.data : fc.case = fc.response.data[i]

C27_Witness_SecondEntryReturned ==
    /\ fc.op = "get_case"
    /\ fc.pc = "returned"
    /\ Len(fc.response.data) >= 2
    /\ fc.response.data[1].case_id # fc.case_id
    /\ fc.case = fc.response.data[2]

PdfType == "application/pdf"
DocxType == "application/vnd.openxmlformats-officedocument.wordprocessingml.document"

\* An extract_text call that ended
ExtractEnded == fc.op = "extract_text" /\ fc.pc # "call"

\* The extension decides whenever it yields a type; a resolved type that is none
\* of PDF, wordprocessing archive, HTML or text/* ends in the extraction error
TypeByNameFirst ==
    /\ GuessType(fc.filename) # Null => fc.mime_type = GuessType(fc.filename)
    /\ fc.mime_type \notin {PdfType, DocxType, "text/html", "text/plain", "text/csv"} =>
          /\ fc.pc = "raised"
          /\ fc.result.error = <<"Unsupported file type: ", fc.mime_type>>

\* C28: the content type is resolved from the filename extension first; the
\* content's leading bytes are consulted only when the filename yields no type:
\* %PDF gives PDF, a ZIP signature with the wordprocessing marker gives the
\* wordprocessing archive, a ZIP signature without it gives the ZIP archive, a
\* leading < gives HTML, anything else plain text; a resolved type that is none
\* of PDF, wordprocessing archive, HTML or text/* fails with an extraction error.
C28_TypeByNameThenMagic ==
    ExtractEnded =>
        /\ TypeByNameFirst
        /\ GuessType(fc.filename) = Null =>
              fc.mime_type = CASE fc.content.format = "pdf"  -> PdfType
                               [] fc.content.format = "docx" -> DocxType
                               [] fc.content.format = "zip"  -> "application/zip"
                               [] fc.content.format = "html" -> "text/html"
                               [] OTHER                      -> "text/plain"

C28_Witness_UnnamedZipUnsupported ==
    /\ ExtractEnded
    /\ fc.filename.ext = ""
    /\ fc.content.format = "zip"
    /\ fc.mime_type = "application/zip"
    /\ fc.pc = "raised"

\* C28 as stated: with no type from the filename, everything that is not %PDF,
\* a ZIP signature with the wordprocessing marker or a leading < is plain text
C28_MagicElsePlainText ==
    ExtractEnded =>
        /\ TypeByNameFirst
        /\ GuessType(fc.filename) = Null =>
              fc.mime_type = CASE fc.content.format = "pdf"  -> PdfType
                               [] fc.content.format = "docx" -> DocxType
                               [] fc.content.format = "html" -> "text/html"
                               [] OTHER                      -> "text/plain"

\* C29: health_check never raises: whatever the upstream does (success, a
\* status that is not success, 401, 404, another HTTP error, a transient failure
\* on all attempts) what it gives its caller is a boolean, and the boolean is
\* true only when the upstream answered with status success.
C29_HealthCheckNeverRaises ==
    rq.op = "health" =>
        /\ rq.pc # "health_raised"
        /\ rq.pc = "health_returned" =>
              /\ rq.result \in {"True", "False"}
              /\ rq.result = "True" => rq.script[rq.attempts] = "200"

C29_Witness_UnreachableUpstreamIsFalse ==
    /\ rq.op = "health"
    /\ \A i \in 1..3 : Transient(rq.script[i])
    /\ rq.pc = "health_returned"
    /\ rq.attempts = 3
    /\ rq.result = "False"

----------------------------------------------------------------------------
(* Properties of the sync pipeline over a storage that may fail (StorageSpec) *)

\* C31: every sync_case invocation ends with its job in a terminal status,
\* whether it returns or raises, when every call to the remote source, the
\* storage and the embedder returns or raises: no run sits for ever in a call
\* of its own, and a run that has ended has left its job in a terminal status.
C31_RunEndsTerminal ==
    \A r \in Runs :
        /\ runs[r].pc # "hung"
        /\ Finished(r) => Job(r).status \in TerminalStatus

\* The number of items of run r skipped as duplicates
Skipped(r) == Cardinality({i \in DOMAIN runs[r].outcomes : runs[r].outcomes[i].kind = "skipped"})

\* C34: when the loop over a listing of n items is over, each item has exactly
\* one outcome among stored, skipped as duplicate and recorded error:
\* documents_synced + skipped duplicates + recorded errors = n.
C34_OneOutcomePerItem ==
    \A r \in Runs :
        (runs[r].pc = "finalize" \/ LoopFinished(r)) =>
            runs[r].documents_synced + Skipped(r) + Len(runs[r].errors) = Len(runs[r].evidences)

----------------------------------------------------------------------------
(* Properties of the sync pipeline (Spec), continued *)

\* Runs a and b overlapped: neither had ended when the other began
Concurrent(a, b) ==
    /\ a # b
    /\ Begun(a) /\ Begun(b)
    /\ a \notin runs[b].after
    /\ b \notin runs[a].after

\* C32: two sync jobs that run concurrently with force_reindex = false and both
\* meet an evidence item of the same bytes store at most one Document of that
\* content hash, however their duplicate checks and commits interleave.
C32_ConcurrentJobsStoreOnce ==
    \A d \in documents : \A e \in documents :
        ( /\ Concurrent(d.created_by, e.created_by)
          /\ ~runs[d.created_by].force_reindex
          /\ ~runs[e.created_by].force_reindex )
        => d.file_hash # e.file_hash

\* The Document row of d was stored for an item its run counted as stored
StoredItem(d) ==
    /\ d.item \in DOMAIN runs[d.created_by].outcomes
    /\ runs[d.created_by].outcomes[d.item].kind = "stored"

\* C33: every Chunk row stored for a document carries the embedding computed
\* from its own content, and the document has as many Chunk rows as the chunker
\* produced chunks for it.
C33_ChunksPairedWithOwnVectors ==
    \A d \in documents :
        StoredItem(d) =>
            /\ \A c \in ChunkRowsOf(d) : c.embedding = Encode(c.content)
            /\ Cardinality(ChunkRowsOf(d)) = Len(ItemChunksData(d.created_by, d.item))

----------------------------------------------------------------------------
(* Properties of chunk_text (ChunkSpec), continued *)

\* C35: for 0 <= O < C the returned chunks cover the whole token sequence: every
\* token position of [0, T) lies in at least one chunk, and each chunk starts O
\* tokens before the end of the one before it.
C35_ChunksCoverText ==
    (ck.pc = "done" /\ ~IsBlank(ck.tokens)) =>
        LET w == ck.chunks
        IN /\ \A p \in 0..(Len(ck.tokens) - 1) :
                 \E i \in DOMAIN w : w[i].start_token <= p /\ p < w[i].end_token
           /\ \A i \in DOMAIN w :
                 i > 1 => w[i - 1].end_token - w[i].start_token = ck.chunk_overlap

----------------------------------------------------------------------------
(* Properties of the model initialization (WarmSpec), continued *)

\* C36: is_loaded() is true if and only if a model instance is cached: whenever
\* is_loaded() is true there is a cached model (so the model property does not
\* raise), and once no warm_up call is under way, whether the calls failed or
\* succeeded, a cached model implies is_loaded().
C36_LoadedIffModelCached ==
    /\ ws.loaded => ws.model # 0
    /\ (ws.lock = 0 /\ ws.model # 0) => ws.loaded

----------------------------------------------------------------------------
(* Properties of the sync pipeline (Spec), continued *)

\* C37: a trigger for a case that is absent from the upstream listing, or whose
\* case lookup fails, is answered with an error (404 for the absent case when
\* the lookup was answered), inserts no SyncJob row and schedules no background
\* sync: the request ends there.
C37_RejectedTriggerCreatesNothing ==
    [][\A r \in Runs :
          LET triggered == runs[r].pc = "idle" /\ runs'[r].pc # "idle"
              absent    == runs'[r].case_id \notin DOMAIN upstream
              failed    == faults' # faults
          IN /\ (triggered /\ (absent \/ failed)) =>
                   /\ runs'[r].pc = "rejected"
                   /\ runs'[r].http = IF failed THEN 500 ELSE 404
                   /\ jobs' = jobs
             /\ runs[r].pc = "rejected" => runs'[r] = runs[r]]_vars

C37_Witness_AbsentCaseRejected ==
    \E r \in Runs :
        /\ runs[r].pc = "rejected"
        /\ runs[r].case_id \notin DOMAIN upstream
        /\ runs[r].http = 404
        /\ jobs = <<>>
        /\ faults = 0

\* The positions of run r's listing whose item ended in a recorded error
ErrorItems(r) == {i \in DOMAIN runs[r].outcomes : runs[r].outcomes[i].kind = "error"}

\* The k-th smallest member of a set of numbers
Nth(S, k) == CHOOSE i \in S : Cardinality({j \in S : j < i}) = k - 1

\* str.split("\n") of a joined text
RECURSIVE SplitLines(_)
SplitLines(msg) ==
    IF \A i \in DOMAIN msg : msg[i] # "\n" THEN <<msg>>
    ELSE LET n == CHOOSE i \in DOMAIN msg :
                      msg[i] = "\n" /\ \A j \in 1..(i - 1) : msg[j] # "\n"
         IN <<SubSeq(msg, 1, n - 1)>> \o SplitLines(SubSeq(msg, n + 1, Len(msg)))

IsPrefix(p, q) == Len(p) <= Len(q) /\ SubSeq(q, 1, Len(p)) = p

\* C38: the error_message of a job that ends completed_with_errors has exactly
\* one line per failed evidence item, in listing order, each line the item's
\* filename, a colon and the message; the error_message of a job that ends
\* completed is null.
C38_ErrorMessageLines ==
    \A r \in Runs :
        LoopFinished(r) =>
            /\ Job(r).status = "completed" => Job(r).error_message = NoText
            /\ Job(r).status = "completed_with_errors" =>
                  LET lines == SplitLines(Job(r).error_message)
                  IN /\ Len(lines) = Cardinality(ErrorItems(r))
                     /\ \A k \in DOMAIN lines :
                           IsPrefix(FilenameText(runs[r].evidences[Nth(ErrorItems(r), k)].filename)
                                        \o <<": ">>,
                                    lines[k])

C38_Witness_TwoErrorLines ==
    \E r \in Runs :
        /\ LoopFinished(r)
        /\ Job(r).status = "completed_with_errors"
        /\ Cardinality(ErrorItems(r)) = 2
        /\ Len(SplitLines(Job(r).error_message)) = 2

====
